---- MODULE Spec2Model ----
(***************************************************************************)
(* A model of Reader.py: AWSPDFConverter, which turns a PDF into one MP3.  *)
(*                                                                         *)
(* extract_text_from_pdf is a pure function of the pages' texts and is     *)
(* modelled by operators.  A Python string is a sequence of items          *)
(* <<c, n>>: the character c repeated n times.  The period, the space and  *)
(* the newline always come with n = 1; a letter may come as a long run, so *)
(* that texts around MAX_CHUNK_SIZE characters stay small values.          *)
(*                                                                         *)
(* convert_pdf_to_speech is modelled as one process per job; the files it  *)
(* touches (temp_audio_files/chunk_<i>.mp3, temp_audio_files/file_list.txt *)
(* and the output file) are the shared state.                              *)
(***************************************************************************)
EXTENDS Integers, Sequences, FiniteSets, TLC

\* ------------------------------------------------------------------ bounds
NumJobs == 2
MaxChunks == 3
MaxLen == 4
ShortLen == 1

\* ------------------------------------------------------- program constants
MAX_CHUNK_SIZE == 2800

\* ----------------------------------------------------------------- strings
Dot == <<".", 1>>
Space == <<" ", 1>>
NL == <<"\n", 1>>
DotSpace == <<Dot, Space>>

\* len(s)
RECURSIVE StrLen(_)
StrLen(s) == IF s = <<>> THEN 0 ELSE Head(s)[2] + StrLen(Tail(s))

\* str.isspace() of one character
IsSpace(c) == c[1] \in {" ", "\n"}

\* text.replace('\n', ' ')
ReplaceNewlines(s) == [k \in 1..Len(s) |-> IF s[k] = NL THEN Space ELSE s[k]]

\* s.split('. '): left to right, without overlap; never an empty list
RECURSIVE SplitFrom(_, _, _)
SplitFrom(s, k, cur) ==
    IF k > Len(s) THEN <<cur>>
    ELSE IF k < Len(s) /\ s[k] = Dot /\ s[k + 1] = Space
         THEN <<cur>> \o SplitFrom(s, k + 2, <<>>)
         ELSE SplitFrom(s, k + 1, Append(cur, s[k]))

SplitSentences(s) == SplitFrom(s, 1, <<>>)

RECURSIVE LStrip(_)
LStrip(s) == IF s # <<>> /\ IsSpace(Head(s)) THEN LStrip(Tail(s)) ELSE s

RECURSIVE RStrip(_)
RStrip(s) ==
    IF s # <<>> /\ IsSpace(s[Len(s)]) THEN RStrip(SubSeq(s, 1, Len(s) - 1)) ELSE s

\* s.strip()
Strip(s) == RStrip(LStrip(s))

\* ---------------------------------------------------- extract_text_from_pdf
\* The state of the two nested loops: text_chunks and current_chunk.
EmptyAcc == [text_chunks |-> <<>>, current_chunk |-> <<>>]

\* A slip of the else branch: the sentence that did not fit is dropped.
SentenceStepDropping(acc, sentence) ==
    IF StrLen(acc.current_chunk) + StrLen(sentence) < MAX_CHUNK_SIZE
    THEN [acc EXCEPT !.current_chunk = @ \o sentence \o DotSpace]
    ELSE [text_chunks |-> IF acc.current_chunk # <<>>
                          THEN Append(acc.text_chunks, Strip(acc.current_chunk))
                          ELSE acc.text_chunks,
          current_chunk |-> DotSpace]

\* The body of "for sentence in sentences".
SentenceStep(acc, sentence) ==
    IF StrLen(acc.current_chunk) + StrLen(sentence) < MAX_CHUNK_SIZE
    THEN [acc EXCEPT !.current_chunk = @ \o sentence \o DotSpace]
    ELSE [text_chunks |-> IF acc.current_chunk # <<>>
                          THEN Append(acc.text_chunks, Strip(acc.current_chunk))
                          ELSE acc.text_chunks,
          current_chunk |-> sentence \o DotSpace]

RECURSIVE FoldSentences(_, _)
FoldSentences(acc, sentences) ==
    IF sentences = <<>> THEN acc
    ELSE FoldSentences(SentenceStep(acc, Head(sentences)), Tail(sentences))

\* The body of "for page_num in range(len(doc))".
PageStep(acc, text) == FoldSentences(acc, SplitSentences(ReplaceNewlines(text)))

RECURSIVE FoldPages(_, _)
FoldPages(acc, pages) ==
    IF pages = <<>> THEN acc
    ELSE FoldPages(PageStep(acc, Head(pages)), Tail(pages))

\* "Add the last chunk if it exists"
LastChunk(acc) ==
    IF acc.current_chunk # <<>>
    THEN Append(acc.text_chunks, Strip(acc.current_chunk))
    ELSE acc.text_chunks

\* The list extract_text_from_pdf returns for a document with these pages.
ExtractTextChunks(pages) == LastChunk(FoldPages(EmptyAcc, pages))

\* ------------------------------------------------------------- documents
Letter(c, n) == <<c, n>>

\* The characters texts are drawn from: the separators, single letters, and
\* runs of letters long enough to fill or to exceed a chunk.
Alphabet ==
    {Dot, Space, NL, Letter("a", 1), Letter("b", 1), Letter("a", 1200),
     Letter("a", 2797), Letter("a", 3001)}

Texts(n) == UNION {[1..m -> Alphabet] : m \in 0..n}

\* Documents for the chunking step: no page, one page, or several short pages.
AllDocs ==
    {<<>>} \cup {<<t>> : t \in Texts(MaxLen)}
           \cup {<<t, u>> : t \in Texts(ShortLen), u \in Texts(ShortLen)}

Big == Letter("a", 2797)

\* Documents for whole conversions: 0, 1, 1, 2 and 3 chunks.
PipeDocs ==
    { <<>>,
      << <<>> >>,
      << <<Letter("a", 1), Dot, Space, Letter("b", 1)>> >>,
      << <<Big, Dot, Space, Big>> >>,
      << <<Big, Dot, Space, Big>>, <<Big>> >> }

\* ------------------------------------------------------------------- state
Jobs == 1..NumJobs
ChunkIds == 0..(MaxChunks - 1)

VARIABLES
    mode,         \* "sequential": one conversion at a time; "concurrent": any
    doc,          \* doc[j]: the pages' texts of job j's PDF
    pc,           \* pc[j]: where job j is in convert_pdf_to_speech
    text_chunks,  \* text_chunks[j]
    i,            \* i[j]: the loop index of "for i, chunk in enumerate(...)"
    temp_files,   \* temp_files[j]: chunk ids k standing for temp_dir/chunk_<k>.mp3
    chunkFile,    \* chunkFile[k]: the file temp_audio_files/chunk_<k>.mp3
    listFile,     \* the file temp_audio_files/file_list.txt
    outFile,      \* outFile[j]: the file at job j's output_path
    synthLog,     \* synthLog[j]: the calls of synthesize_speech, in order
    combined,     \* combined[j]: the input_files combine_audio_files was given
    failed_at     \* failed_at[j]: the call that raised, or "none"

vars == <<mode, doc, pc, text_chunks, i, temp_files, chunkFile, listFile,
          outFile, synthLog, combined, failed_at>>

NoFile == [st |-> "none", job |-> 0, idx |-> 0]
Audio(j, k) == [st |-> "audio", job |-> j, idx |-> k]
Truncated(j, k) == [st |-> "empty", job |-> j, idx |-> k]
NoList == [exists |-> FALSE, lines |-> <<>>, job |-> 0]
NoOutput == [st |-> "none", segs |-> <<>>]
NotCombined == [called |-> FALSE, files |-> <<>>]

InitJobs ==
    /\ pc = [j \in Jobs |-> "idle"]
    /\ text_chunks = [j \in Jobs |-> <<>>]
    /\ i = [j \in Jobs |-> 0]
    /\ temp_files = [j \in Jobs |-> <<>>]
    /\ chunkFile = [k \in ChunkIds |-> NoFile]
    /\ listFile = NoList
    /\ outFile = [j \in Jobs |-> NoOutput]
    /\ synthLog = [j \in Jobs |-> <<>>]
    /\ combined = [j \in Jobs |-> NotCombined]
    /\ failed_at = [j \in Jobs |-> "none"]

\* Conversions run one after the other, as main() does.
Init == mode = "sequential" /\ doc \in [Jobs -> PipeDocs] /\ InitJobs

\* Conversions of different documents run at the same time.
InitConc == mode = "concurrent" /\ doc \in [Jobs -> PipeDocs] /\ InitJobs

\* The chunking step alone, on every bounded document.
InitChunk ==
    /\ mode = "sequential"
    /\ \E d \in AllDocs : doc = [j \in Jobs |-> IF j = 1 THEN d ELSE <<>>]
    /\ InitJobs

Ended(j) == pc[j] \in {"done", "failed"}
MayStart(j) ==
    mode = "concurrent" \/ \A k \in Jobs \ {j} : pc[k] = "idle" \/ Ended(k)

\* ----------------------------------------------------- convert_pdf_to_speech
\* The path of chunk k's temporary file, temp_dir/chunk_<k>.mp3, named by k.
TempFile(k) == k

\* A slip: a synthesis error is swallowed and the loop goes on.
PcAfterSynthesisSwallowing(raised, k, n) ==
    IF k + 1 < n THEN "synth" ELSE "write_list"

\* Where the job is after the iteration for chunk k of n: an exception leaves
\* through the except clause, the last chunk leads to combine_audio_files.
PcAfterSynthesis(raised, k, n) ==
    IF raised THEN "failed" ELSE IF k + 1 < n THEN "synth" ELSE "write_list"

\* text_chunks = self.extract_text_from_pdf(pdf_path); temp_files = []
StartConversion(j) ==
    /\ pc[j] = "idle"
    /\ MayStart(j)
    /\ LET chunks == ExtractTextChunks(doc[j]) IN
        /\ text_chunks' = [text_chunks EXCEPT ![j] = chunks]
        /\ pc' = [pc EXCEPT ![j] = IF Len(chunks) > 0 THEN "synth" ELSE "write_list"]
    /\ UNCHANGED <<mode, doc, i, temp_files, chunkFile, listFile, outFile,
                   synthLog, combined, failed_at>>

\* fitz.open or get_text raises: the exception is printed and raised again.
ExtractionFails(j) ==
    /\ pc[j] = "idle"
    /\ MayStart(j)
    /\ pc' = [pc EXCEPT ![j] = "failed"]
    /\ failed_at' = [failed_at EXCEPT ![j] = "extract"]
    /\ UNCHANGED <<mode, doc, text_chunks, i, temp_files, chunkFile, listFile,
                   outFile, synthLog, combined>>

\* What one call of synthesize_speech can do:
\*   "ok"         the response holds an AudioStream, written to output_path
\*   "no_stream"  the response holds no AudioStream: nothing is written
\*   "api_error"  polly_client.synthesize_speech raises
\*   "read_error" open(output_path, "wb") truncated the file, stream.read() raises
SynthOutcomes == {"ok", "no_stream", "api_error", "read_error"}

\* The file at output_path after synthesize_speech.
SynthesizedFile(old, outcome, j, k) ==
    CASE outcome = "ok" -> Audio(j, k)
      [] outcome = "read_error" -> Truncated(j, k)
      [] OTHER -> old

\* One iteration of the loop over text_chunks.
Synthesize(j) ==
    /\ pc[j] = "synth"
    /\ i[j] < Len(text_chunks[j])
    /\ \E outcome \in SynthOutcomes :
        LET k == i[j]
            temp_file == TempFile(k)
            raised == outcome \in {"api_error", "read_error"}
        IN
        /\ chunkFile' = [chunkFile EXCEPT
                            ![temp_file] = SynthesizedFile(@, outcome, j, k)]
        /\ synthLog' = [synthLog EXCEPT
                            ![j] = Append(@, [idx |-> k, outcome |-> outcome])]
        /\ temp_files' = [temp_files EXCEPT
                            ![j] = IF raised THEN @ ELSE Append(@, temp_file)]
        /\ i' = [i EXCEPT ![j] = IF raised THEN @ ELSE k + 1]
        /\ pc' = [pc EXCEPT
                    ![j] = PcAfterSynthesis(raised, k, Len(text_chunks[j]))]
        /\ failed_at' = [failed_at EXCEPT ![j] = IF raised THEN "synth" ELSE @]
    /\ UNCHANGED <<mode, doc, text_chunks, listFile, outFile, combined>>

\* ------------------------------------------------------- combine_audio_files
\* A slip: the list is written in reverse.
ListLinesReversed(input_files) ==
    [k \in 1..Len(input_files) |-> input_files[Len(input_files) + 1 - k]]

\* The lines of file_list.txt: one per input file, in the order given.
ListLines(input_files) == input_files

\* with open(list_file, 'w') as f: ...
WriteList(j) ==
    /\ pc[j] = "write_list"
    /\ combined' = [combined EXCEPT ![j] = [called |-> TRUE, files |-> temp_files[j]]]
    /\ listFile' = [exists |-> TRUE, lines |-> ListLines(temp_files[j]), job |-> j]
    /\ pc' = [pc EXCEPT ![j] = "ffmpeg"]
    /\ UNCHANGED <<mode, doc, text_chunks, i, temp_files, chunkFile, outFile,
                   synthLog, failed_at>>

\* ffmpeg can concatenate when the list names at least one file and every
\* file it names holds audio.
Readable ==
    /\ listFile.exists
    /\ listFile.lines # <<>>
    /\ \A k \in 1..Len(listFile.lines) : chunkFile[listFile.lines[k]].st = "audio"

\* What the ffmpeg command can do:
\*   "ok"          exit 0, the output holds the listed files in list order
\*   "ok_nofile"   exit 0, but no output file
\*   "err"         non-zero exit, the output path untouched
\*   "err_partial" non-zero exit, a partial output file left behind
FfmpegOutcomes ==
    IF Readable THEN {"ok", "ok_nofile", "err", "err_partial"} ELSE {"err"}

Concatenated ==
    [st |-> "full",
     segs |-> [k \in 1..Len(listFile.lines) |-> chunkFile[listFile.lines[k]]]]

\* result = os.system(ffmpeg_cmd); if result != 0: raise
RunFfmpeg(j) ==
    /\ pc[j] = "ffmpeg"
    /\ \E outcome \in FfmpegOutcomes :
        /\ outFile' = [outFile EXCEPT
                ![j] = CASE outcome = "ok" -> Concatenated
                         [] outcome = "err_partial" -> [st |-> "partial", segs |-> <<>>]
                         [] OTHER -> @]
        /\ pc' = [pc EXCEPT
                ![j] = IF outcome \in {"ok", "ok_nofile"} THEN "verify" ELSE "failed"]
        /\ failed_at' = [failed_at EXCEPT
                ![j] = IF outcome \in {"ok", "ok_nofile"} THEN @ ELSE "ffmpeg"]
    /\ UNCHANGED <<mode, doc, text_chunks, i, temp_files, chunkFile, listFile,
                   synthLog, combined>>

\* if not os.path.exists(output_file): raise; then os.remove(list_file), which
\* raises when the file is gone; then every input file that exists is removed.
VerifyAndCleanUp(j) ==
    /\ pc[j] = "verify"
    /\ IF outFile[j].st = "none"
       THEN /\ pc' = [pc EXCEPT ![j] = "failed"]
            /\ failed_at' = [failed_at EXCEPT ![j] = "verify"]
            /\ UNCHANGED <<listFile, chunkFile>>
       ELSE IF ~listFile.exists
       THEN /\ pc' = [pc EXCEPT ![j] = "failed"]
            /\ failed_at' = [failed_at EXCEPT ![j] = "cleanup"]
            /\ UNCHANGED <<listFile, chunkFile>>
       ELSE /\ listFile' = NoList
            /\ chunkFile' = [k \in ChunkIds |->
                    IF \E n \in 1..Len(combined[j].files) : combined[j].files[n] = k
                    THEN NoFile ELSE chunkFile[k]]
            /\ pc' = [pc EXCEPT ![j] = "done"]
            /\ UNCHANGED failed_at
    /\ UNCHANGED <<mode, doc, text_chunks, i, temp_files, outFile, synthLog,
                   combined>>

Next ==
    \E j \in Jobs :
        \/ StartConversion(j)
        \/ ExtractionFails(j)
        \/ Synthesize(j)
        \/ WriteList(j)
        \/ RunFfmpeg(j)
        \/ VerifyAndCleanUp(j)

Spec == Init /\ [][Next]_vars

SpecConc == InitConc /\ [][Next]_vars

NextChunk == StartConversion(1)

SpecChunk == InitChunk /\ [][NextChunk]_vars

\* ------------------------------------------------------------------ claims
\* Job j has its chunks: extract_text_from_pdf has returned.
Chunked(j) == pc[j] # "idle" /\ failed_at[j] # "extract"

Active(j) == pc[j] \in {"synth", "write_list", "ffmpeg", "verify"}

Returned(call) == call.outcome \in {"ok", "no_stream"}

RECURSIVE Flatten(_)
Flatten(ss) == IF ss = <<>> THEN <<>> ELSE Head(ss) \o Flatten(Tail(ss))

\* Adjacent runs of one letter are one run: the same Python string.
RECURSIVE Merge(_)
Merge(s) ==
    IF Len(s) < 2 THEN s
    ELSE IF s[1][1] = s[2][1]
         THEN Merge(<<Letter(s[1][1], s[1][2] + s[2][2])>> \o SubSeq(s, 3, Len(s)))
         ELSE <<s[1]>> \o Merge(Tail(s))

\* The string without the characters of the sentence separator '. '.
WithoutSeparators(s) == Merge(SelectSeq(s, LAMBDA c : c \notin {Dot, Space}))

\* The string without separator characters and without whitespace.
WithoutSeparatorsAndSpace(s) ==
    Merge(SelectSeq(s, LAMBDA c : c # Dot /\ ~IsSpace(c)))

\* C1: when a run of convert_pdf_to_speech has ended, whatever its outcome, no
\* chunk_<i>.mp3 written by this run and no file_list.txt written by it remain.
C1_TempDirEmptyAfterRun ==
    \A j \in Jobs :
        Ended(j) =>
            /\ \A k \in ChunkIds : ~(chunkFile[k].st # "none" /\ chunkFile[k].job = j)
            /\ ~(listFile.exists /\ listFile.job = j)

\* C2: every chunk extract_text_from_pdf returns is at most MAX_CHUNK_SIZE
\* characters long, also when a single sentence is longer than that.
C2_ChunksWithinLimit ==
    \A j \in Jobs :
        \A n \in 1..Len(text_chunks[j]) : StrLen(text_chunks[j][n]) <= MAX_CHUNK_SIZE

\* C3: whenever a run ends in failure, no file exists at its output path.
C3_NoOutputOnFailure ==
    \A j \in Jobs : pc[j] = "failed" => outFile[j].st = "none"

\* C4: synthesis calls are issued in increasing chunk index order, each after
\* the one before has returned; the list handed to combine_audio_files and the
\* list written to file_list.txt hold segment i at position i, and so does the
\* output.
C4_ChunkOrderPreserved ==
    \A j \in Jobs :
        /\ \A n \in 1..Len(synthLog[j]) :
            /\ synthLog[j][n].idx = n - 1
            /\ n < Len(synthLog[j]) => Returned(synthLog[j][n])
        /\ combined[j].called =>
            /\ Len(combined[j].files) = Len(text_chunks[j])
            /\ \A n \in 1..Len(combined[j].files) : combined[j].files[n] = n - 1
        /\ (listFile.exists /\ listFile.job = j) =>
            /\ Len(listFile.lines) = Len(text_chunks[j])
            /\ \A n \in 1..Len(listFile.lines) : listFile.lines[n] = n - 1
        /\ outFile[j].st = "full" =>
            /\ Len(outFile[j].segs) = Len(text_chunks[j])
            /\ \A n \in 1..Len(outFile[j].segs) : outFile[j].segs[n].idx = n - 1

\* C4 witness: a job of three chunks has produced its output from three segments.
C4_Witness ==
    \E j \in Jobs :
        /\ pc[j] = "done"
        /\ Len(text_chunks[j]) = 3
        /\ Len(synthLog[j]) = 3
        /\ Len(outFile[j].segs) = 3

\* C5: combine_audio_files starts only after the synthesis call of every chunk
\* has returned without raising; when the call for chunk k raises, no later
\* chunk is synthesized, combine_audio_files is never called and the job has
\* failed.
C5_AssemblyOnlyAfterAllChunks ==
    \A j \in Jobs :
        /\ combined[j].called =>
            /\ Len(synthLog[j]) = Len(text_chunks[j])
            /\ \A n \in 1..Len(synthLog[j]) :
                synthLog[j][n].idx = n - 1 /\ Returned(synthLog[j][n])
        /\ \A n \in 1..Len(synthLog[j]) :
            ~Returned(synthLog[j][n]) =>
                /\ n = Len(synthLog[j])
                /\ ~combined[j].called
                /\ pc[j] = "failed"

\* C5 witness: the second chunk of three failed in one job, and another job was
\* assembled after its three chunks.
C5_Witness ==
    /\ \E j \in Jobs :
        /\ Len(text_chunks[j]) = 3
        /\ Len(synthLog[j]) = 2
        /\ ~Returned(synthLog[j][2])
        /\ pc[j] = "failed"
    /\ \E j \in Jobs :
        /\ Len(text_chunks[j]) = 3
        /\ combined[j].called

\* C6 as stated: for a non-empty text, the chunks' concatenation without the
\* separator characters is the text without them: nothing lost, reordered or
\* added.
C6_ReconstructsText ==
    \A j \in Jobs :
        (Chunked(j) /\ Len(doc[j]) = 1 /\ doc[j][1] # <<>>) =>
            WithoutSeparators(Flatten(text_chunks[j])) = WithoutSeparators(doc[j][1])

\* C6 amended: the chunks' concatenation without separator characters and
\* whitespace is the pages' text without them (a newline becomes a space and
\* a chunk is stripped, so whitespace is not kept).
C6_ReconstructsVisibleText ==
    \A j \in Jobs :
        Chunked(j) =>
            WithoutSeparatorsAndSpace(Flatten(text_chunks[j]))
                = WithoutSeparatorsAndSpace(Flatten(doc[j]))

\* C6 witness: a text with a newline was split into more than one chunk.
C6_Witness ==
    \E j \in Jobs :
        /\ Chunked(j)
        /\ Len(text_chunks[j]) >= 2
        /\ \E k \in 1..Len(Flatten(doc[j])) : Flatten(doc[j])[k] = NL
        /\ \E k \in 1..Len(Flatten(doc[j])) : ~IsSpace(Flatten(doc[j])[k])

\* C7: the chunking step returns no chunk for the empty text, and exactly one
\* chunk, equal to the text, for a text of at most MAX_CHUNK_SIZE characters.
C7_EmptyAndShortText ==
    \A j \in Jobs :
        (Chunked(j) /\ Len(doc[j]) <= 1) =>
            LET text == IF doc[j] = <<>> THEN <<>> ELSE doc[j][1] IN
            /\ text = <<>> => text_chunks[j] = <<>>
            /\ (text # <<>> /\ StrLen(text) <= MAX_CHUNK_SIZE) =>
                    text_chunks[j] = <<text>>

\* The extracted text is empty or whitespace only.
NoText(pages) == \A k \in 1..Len(Flatten(pages)) : IsSpace(Flatten(pages)[k])

\* C8: when the extracted text is empty or whitespace only the job fails
\* without chunking: no synthesis call is made and assembly is not started.
C8_NoTextFails ==
    \A j \in Jobs :
        (NoText(doc[j]) /\ pc[j] # "idle") =>
            /\ pc[j] = "failed"
            /\ synthLog[j] = <<>>
            /\ ~combined[j].called

\* C9: while a job converts a document different from every other job's, the
\* chunk files it wrote and the list it wrote are still its own: no other job
\* has overwritten or deleted them.
C9_JobsDoNotShareTempFiles ==
    \A j \in Jobs :
        (Active(j) /\ \A k \in Jobs \ {j} : doc[k] # doc[j]) =>
            /\ \A n \in 1..Len(synthLog[j]) :
                synthLog[j][n].outcome = "ok" =>
                    chunkFile[synthLog[j][n].idx] = Audio(j, synthLog[j][n].idx)
            /\ pc[j] \in {"ffmpeg", "verify"} =>
                    (listFile.exists /\ listFile.job = j)

\* C10: every call of synthesize_speech that returned has written the file at
\* its path, so every path of the segment list names a file written by this
\* job's synthesis of that chunk.
C10_SegmentsWrittenByThisJob ==
    \A j \in Jobs :
        Active(j) =>
            \A n \in 1..Len(temp_files[j]) :
                chunkFile[temp_files[j][n]] = Audio(j, n - 1)

====
